---- MODULE Spec2Model ----
(***************************************************************************)
(* The Polkapobal ink! contract (src/src/lib.rs): member and task          *)
(* registries, the era selection state machine, proof upload, task         *)
(* completion and reward disbursement.                                     *)
(*                                                                         *)
(* Every message is a pure operator from the storage (a record with the    *)
(* fields of `struct Polkapobal` plus the account balances of the          *)
(* environment) to an outcome [err, st]: err is "ok" or the panic message, *)
(* st the storage at the point where the message returned or panicked.     *)
(* A message that panics traps, and the contract call is reverted as a     *)
(* whole, which is what Dispatch models.                                   *)
(***************************************************************************)
EXTENDS Integers, Sequences, FiniteSets, TLC

\* ------------------------------------------------------------------ bounds
\* u32 (block numbers, selection era) and Balance = u128 are modelled with a
\* small range so that their overflow is reachable.
MaxU32 == 5
MaxBalance == 80
\* the block height the clock is advanced to at most
MaxBlock == 2
\* what the funding account holds when the contract is instantiated
InitialFunds == 6

\* ------------------------------------------------------- program constants
\* randomly_select_members picks `for i in 0..4`
NumParticipants == 4

Principals == {"alice", "bob", "charlie", "django", "eve"}
Contract == "contract"
Accounts == Principals \cup {Contract}
TaskNames == {"Task 1", "Task 2"}
Hashes == {"0x01", "0x02"}
NoHash == "none"

\* --------------------------------------------------------- panic messages
Ok == "ok"
NotOwner == "Only owner can call"
AlreadyMember == "Member already exists"
NotMember == "Must be a member to call"
MemberNotFound == "Member existence verified before calling"
TaskExists == "Task already exists"
TaskNotFound == "Task does not exist"
TaskVanished == "Task existence verified before calling"
BalanceOverflow == "Balance overflow"
TaskAlreadyComplete == "Task already completed"
NotActiveParticipant == "Caller must be active participant"
NoActiveTask == "Active task must exist"
TaskMustExist == "Task must exist"
InsufficientFunds == "Contract has insufficient funds"
NoMembers == "Must have at least one member"
NoTasks == "Must have at least one task"
TaskIncomplete == "Active task must be completed"
EraNotReached == "Selection era not reached"
AddOverflow == "attempt to add with overflow"
DivideByZero == "attempt to divide by zero"

\* ------------------------------------------------------------------ state
VARIABLES
    owner, members, is_member, tasks, task_info, unclaimed_funds,
    start_block, next_selection, last_selection,
    active_participants, active_task, proofs,
    balances,          \* env: the balance of every account
    block_number,      \* env: the current block height
    overflow_checks    \* build: does `+` on u32 panic on overflow, or wrap

storage == <<owner, members, is_member, tasks, task_info, unclaimed_funds,
             start_block, next_selection, last_selection,
             active_participants, active_task, proofs>>
vars == <<storage, balances, block_number, overflow_checks>>

\* Option<(String, bool)>: None is the empty tuple, Some((t, c)) is <<t, c>>
None == <<>>
Some(t, c) == <<t, c>>
\* task_info entry: absent is the empty tuple, (is_complete, funds) is <<c, b>>
Absent == <<>>

\* The storage and the balances as one value, the `self` of a message.
Cur ==
    [owner |-> owner, members |-> members, is_member |-> is_member,
     tasks |-> tasks, task_info |-> task_info,
     unclaimed_funds |-> unclaimed_funds, start_block |-> start_block,
     next_selection |-> next_selection, last_selection |-> last_selection,
     active_participants |-> active_participants,
     active_task |-> active_task, proofs |-> proofs, balances |-> balances]

Done(s) == [err |-> Ok, st |-> s]
Panic(msg, s) == [err |-> msg, st |-> s]

\* ---------------------------------------------------------------- helpers
Range(seq) == {seq[i] : i \in 1..Len(seq)}

\* Vec::contains
Contains(seq, x) == \E i \in 1..Len(seq) : seq[i] = x

\* Iterator::position: the first index holding x (1-based), 0 for None
Position(seq, x) ==
    IF Contains(seq, x)
    THEN CHOOSE i \in 1..Len(seq) :
            seq[i] = x /\ \A j \in 1..(i - 1) : seq[j] # x
    ELSE 0

\* Vec::swap_remove: the last element takes the place of the removed one
SwapRemove(seq, i) ==
    LET n == Len(seq)
        front == SubSeq(seq, 1, n - 1)
    IN  IF i = n THEN front ELSE [front EXCEPT ![i] = seq[n]]

\* ----------------------------------------------------------------- guards
\* ensure_owner that lets every member pass
ensure_owner_or_member(s, caller) ==
    caller = s.owner \/ caller \in s.is_member

ensure_owner(s, caller) == caller = s.owner

ensure_member(s, caller) == caller \in s.is_member

ensure_non_empty_members(s) == Len(s.members) > 0

ensure_non_empty_tasks(s) == Len(s.tasks) > 0

\* ensure_active_task_complete without the assert
ensure_active_task_complete_never(s) == Ok

\* Ok, or the panic of the check
ensure_active_task_complete(s) ==
    IF s.active_task # None /\ ~s.active_task[2] THEN TaskIncomplete ELSE Ok

\* `block_number() >= last_selection + next_selection` on u32: the sum
\* panics on overflow when the build checks overflow, and wraps otherwise.
ensure_era_reached(s, block, checks) ==
    LET sum == s.last_selection + s.next_selection
    IN  IF sum > MaxU32 /\ checks THEN AddOverflow
        ELSE IF block >= sum % (MaxU32 + 1) THEN Ok
        ELSE EraNotReached

\* ------------------------------------------------------------ constructor
new(caller, selection_era, current_block, bal) ==
    [owner |-> caller, members |-> <<>>, is_member |-> {},
     tasks |-> <<>>, task_info |-> [t \in TaskNames |-> Absent],
     unclaimed_funds |-> 0, start_block |-> current_block,
     next_selection |-> selection_era, last_selection |-> current_block,
     active_participants |-> <<>>, active_task |-> None,
     proofs |-> [t \in TaskNames |-> NoHash], balances |-> bal]

\* --------------------------------------------------------------- messages
\* set_selection_era that ignores an era of 0
set_selection_era_nonzero(s, caller, selection_era) ==
    IF ~ensure_owner(s, caller) THEN Panic(NotOwner, s)
    ELSE IF selection_era = 0 THEN Done(s)
    ELSE Done([s EXCEPT !.next_selection = selection_era])

set_selection_era(s, caller, selection_era) ==
    IF ~ensure_owner(s, caller) THEN Panic(NotOwner, s)
    ELSE Done([s EXCEPT !.next_selection = selection_era])

\* register_member without the assert
register_member_unchecked(s, caller) ==
    Done([s EXCEPT !.is_member = @ \cup {caller},
                   !.members = Append(@, caller)])

register_member(s, caller) ==
    IF caller \in s.is_member THEN Panic(AlreadyMember, s)
    ELSE Done([s EXCEPT !.is_member = @ \cup {caller},
                        !.members = Append(@, caller)])

\* deregister_member without `self.is_member.remove(caller)`
deregister_member_keeps_set(s, caller) ==
    IF ~(caller \in s.is_member) THEN Panic(NotMember, s)
    ELSE LET index == Position(s.members, caller)
         IN  IF index = 0 THEN Panic(MemberNotFound, s)
             ELSE Done([s EXCEPT !.members = SwapRemove(@, index)])

\* deregister_member with Vec::remove, which shifts the tail down
deregister_member_shifts(s, caller) ==
    IF ~ensure_member(s, caller) THEN Panic(NotMember, s)
    ELSE LET index == Position(s.members, caller)
         IN  IF index = 0 THEN Panic(MemberNotFound, s)
             ELSE Done([s EXCEPT
                           !.members = SubSeq(@, 1, index - 1)
                                       \o SubSeq(@, index + 1, Len(@)),
                           !.is_member = @ \ {caller}])

deregister_member(s, caller) ==
    IF ~ensure_member(s, caller) THEN Panic(NotMember, s)
    ELSE LET index == Position(s.members, caller)
         IN  IF index = 0 THEN Panic(MemberNotFound, s)
             ELSE Done([s EXCEPT !.members = SwapRemove(@, index),
                                 !.is_member = @ \ {caller}])

\* the loop of clear_members over the cloned vector, i from len - 1 down to 0
RECURSIVE clear_members_loop(_, _, _)
clear_members_loop(s, snapshot, i) ==
    IF i = 0 THEN s
    ELSE clear_members_loop(
            [s EXCEPT !.is_member = @ \ {snapshot[i]},
                      !.members = SwapRemove(@, i)],
            snapshot, i - 1)

\* clear_members whose loop stops before index 0
clear_members_keeps_first(s, caller) ==
    IF ~ensure_owner(s, caller) THEN Panic(NotOwner, s)
    ELSE IF Len(s.members) = 0 THEN Done(s)
    ELSE Done([clear_members_loop(s, s.members, Len(s.members))
                  EXCEPT !.members = <<s.members[1]>>,
                         !.is_member = {s.members[1]}])

clear_members(s, caller) ==
    IF ~ensure_owner(s, caller) THEN Panic(NotOwner, s)
    ELSE Done(clear_members_loop(s, s.members, Len(s.members)))

\* add_task without ensure_member
add_task_any_caller(s, caller, task) ==
    IF s.task_info[task] # Absent THEN Panic(TaskExists, s)
    ELSE Done([s EXCEPT !.task_info[task] = <<FALSE, 0>>,
                        !.tasks = Append(@, task)])

add_task(s, caller, task) ==
    IF ~ensure_member(s, caller) THEN Panic(NotMember, s)
    ELSE IF s.task_info[task] # Absent THEN Panic(TaskExists, s)
    ELSE Done([s EXCEPT !.task_info[task] = <<FALSE, 0>>,
                        !.tasks = Append(@, task)])

\* remove_task without `self.tasks.swap_remove(index)`
remove_task_keeps_name(s, caller, task) ==
    IF caller # s.owner THEN Panic(NotOwner, s)
    ELSE IF s.task_info[task] = Absent THEN Panic(TaskNotFound, s)
    ELSE IF s.unclaimed_funds + s.task_info[task][2] > MaxBalance
         THEN Panic(BalanceOverflow, [s EXCEPT !.task_info[task] = Absent])
    ELSE Done([s EXCEPT !.task_info[task] = Absent,
                        !.unclaimed_funds = @ + s.task_info[task][2]])

\* remove_task with `=` in place of the checked add
remove_task_overwrites(s, caller, task) ==
    IF ~ensure_owner(s, caller) THEN Panic(NotOwner, s)
    ELSE IF s.task_info[task] = Absent THEN Panic(TaskNotFound, s)
    ELSE
        LET info == s.task_info[task]
            taken == [s EXCEPT !.task_info[task] = Absent]
            swept == [taken EXCEPT !.unclaimed_funds = info[2]]
            index == Position(s.tasks, task)
        IN  IF index = 0 THEN Panic(TaskVanished, swept)
            ELSE Done([swept EXCEPT !.tasks = SwapRemove(@, index)])

\* remove_task without the add to unclaimed_funds
remove_task_drops_funds(s, caller, task) ==
    IF ~ensure_owner(s, caller) THEN Panic(NotOwner, s)
    ELSE IF s.task_info[task] = Absent THEN Panic(TaskNotFound, s)
    ELSE
        LET taken == [s EXCEPT !.task_info[task] = Absent]
            index == Position(s.tasks, task)
        IN  IF index = 0 THEN Panic(TaskVanished, taken)
            ELSE Done([taken EXCEPT !.tasks = SwapRemove(@, index)])

\* remove_task that returns when the task does not exist
remove_task_lenient(s, caller, task) ==
    IF ~ensure_owner(s, caller) THEN Panic(NotOwner, s)
    ELSE IF s.task_info[task] = Absent THEN Done(s)
    ELSE
        LET info == s.task_info[task]
            taken == [s EXCEPT !.task_info[task] = Absent]
            sum == s.unclaimed_funds + info[2]
            swept == [taken EXCEPT !.unclaimed_funds = sum]
            index == Position(s.tasks, task)
        IN  IF sum > MaxBalance THEN Panic(BalanceOverflow, taken)
            ELSE IF index = 0 THEN Panic(TaskVanished, swept)
            ELSE Done([swept EXCEPT !.tasks = SwapRemove(@, index)])

remove_task(s, caller, task) ==
    IF ~ensure_owner(s, caller) THEN Panic(NotOwner, s)
    ELSE IF s.task_info[task] = Absent THEN Panic(TaskNotFound, s)
    ELSE
        LET info == s.task_info[task]
            taken == [s EXCEPT !.task_info[task] = Absent]
            sum == s.unclaimed_funds + info[2]
            swept == [taken EXCEPT !.unclaimed_funds = sum]
            index == Position(s.tasks, task)
        IN  IF sum > MaxBalance THEN Panic(BalanceOverflow, taken)
            ELSE IF index = 0 THEN Panic(TaskVanished, swept)
            ELSE Done([swept EXCEPT !.tasks = SwapRemove(@, index)])

\* the loop of clear_tasks over the cloned vector, i from len - 1 down to 0
RECURSIVE clear_tasks_loop(_, _, _)
clear_tasks_loop(s, snapshot, i) ==
    IF i = 0 THEN Done(s)
    ELSE
        LET task == snapshot[i]
            info == s.task_info[task]
            taken == [s EXCEPT !.task_info[task] = Absent]
        IN  IF info = Absent THEN Panic(TaskVanished, s)
            ELSE IF s.unclaimed_funds + info[2] > MaxBalance
                 THEN Panic(BalanceOverflow, taken)
            ELSE clear_tasks_loop(
                    [taken EXCEPT !.unclaimed_funds = @ + info[2],
                                  !.tasks = SwapRemove(@, i)],
                    snapshot, i - 1)

\* clear_tasks that empties the registry and forgets the balances
clear_tasks_forgets_funds(s, caller) ==
    IF ~ensure_owner(s, caller) THEN Panic(NotOwner, s)
    ELSE Done([s EXCEPT !.tasks = <<>>,
                        !.task_info = [t \in TaskNames |-> Absent]])

\* clear_tasks that also drops the active task
clear_tasks_drops_active(s, caller) ==
    IF ~ensure_owner(s, caller) THEN Panic(NotOwner, s)
    ELSE LET r == clear_tasks_loop(s, s.tasks, Len(s.tasks))
         IN  IF r.err # Ok THEN r
             ELSE Done([r.st EXCEPT !.active_task = None])

clear_tasks(s, caller) ==
    IF ~ensure_owner(s, caller) THEN Panic(NotOwner, s)
    ELSE clear_tasks_loop(s, s.tasks, Len(s.tasks))

\* fund_task with a wrapping add in place of checked_add
fund_task_wraps(s, caller, task, transferred) ==
    LET paid == [s EXCEPT !.balances[caller] = @ - transferred,
                          !.balances[Contract] = @ + transferred]
        info == s.task_info[task]
    IN  IF info = Absent THEN Panic(TaskNotFound, paid)
        ELSE IF info[1] # FALSE THEN Panic(TaskAlreadyComplete, paid)
        ELSE Done([paid EXCEPT
                      !.task_info[task] =
                         <<info[1],
                           (info[2] + transferred) % (MaxBalance + 1)>>])

\* fund_task without the assert on the completion flag
fund_task_any_state(s, caller, task, transferred) ==
    LET paid == [s EXCEPT !.balances[caller] = @ - transferred,
                          !.balances[Contract] = @ + transferred]
        info == s.task_info[task]
    IN  IF info = Absent THEN Panic(TaskNotFound, paid)
        ELSE IF info[2] + transferred > MaxBalance
             THEN Panic(BalanceOverflow, paid)
        ELSE Done([paid EXCEPT
                      !.task_info[task] = <<info[1], info[2] + transferred>>])

\* payable: the environment moves `transferred` from the caller to the
\* contract before the message runs (and back when it panics)
fund_task(s, caller, task, transferred) ==
    LET paid == [s EXCEPT !.balances[caller] = @ - transferred,
                          !.balances[Contract] = @ + transferred]
        info == s.task_info[task]
    IN  IF info = Absent THEN Panic(TaskNotFound, paid)
        ELSE IF info[1] # FALSE THEN Panic(TaskAlreadyComplete, paid)
        ELSE IF info[2] + transferred > MaxBalance
             THEN Panic(BalanceOverflow, paid)
        ELSE Done([paid EXCEPT
                      !.task_info[task] = <<info[1], info[2] + transferred>>])

\* env().transfer(to, value) from the contract: [ok, st]. `refused` is the
\* environment's decision to fail this transfer; it also fails when the
\* contract cannot cover the value or the receiving balance would overflow.
transfer(s, to, value, refused) ==
    IF refused
       \/ s.balances[Contract] < value
       \/ s.balances[to] + value > MaxBalance
    THEN [ok |-> FALSE, st |-> s]
    ELSE [ok |-> TRUE,
          st |-> [s EXCEPT !.balances[Contract] = @ - value,
                           !.balances[to] = @ + value]]

\* beneficiaries.iter().for_each: position k onwards; `failed` is the set of
\* positions whose transfer the environment refuses
RECURSIVE disburse_loop(_, _, _, _, _)
disburse_loop(s, beneficiaries, share, failed, k) ==
    IF k > Len(beneficiaries) THEN Done(s)
    ELSE
        LET t == transfer(s, beneficiaries[k], share, k \in failed)
        IN  IF t.ok
            THEN disburse_loop(t.st, beneficiaries, share, failed, k + 1)
            ELSE IF s.unclaimed_funds + share > MaxBalance
                 THEN Panic(BalanceOverflow, s)
            ELSE disburse_loop([s EXCEPT !.unclaimed_funds = @ + share],
                               beneficiaries, share, failed, k + 1)

\* disburse_rewards that forgets the remainder
disburse_rewards_no_remainder(s, beneficiaries, amount, failed) ==
    IF ~(s.balances[Contract] >= amount) THEN Panic(InsufficientFunds, s)
    ELSE IF Len(beneficiaries) = 0 THEN Panic(DivideByZero, s)
    ELSE disburse_loop(s, beneficiaries, amount \div Len(beneficiaries),
                       failed, 1)

\* disburse_rewards that gives up at the first transfer that fails
disburse_rewards_strict(s, beneficiaries, amount, failed) ==
    IF ~(s.balances[Contract] >= amount) THEN Panic(InsufficientFunds, s)
    ELSE IF Len(beneficiaries) = 0 THEN Panic(DivideByZero, s)
    ELSE
        LET amount_per_beneficiary == amount \div Len(beneficiaries)
            remainder == amount % Len(beneficiaries)
            r == disburse_loop(s, beneficiaries, amount_per_beneficiary,
                               {}, 1)
        IN  IF failed # {} THEN Panic(BalanceOverflow, r.st)
            ELSE IF r.err # Ok THEN r
            ELSE IF r.st.unclaimed_funds + remainder > MaxBalance
                 THEN Panic(BalanceOverflow, r.st)
            ELSE Done([r.st EXCEPT !.unclaimed_funds = @ + remainder])

\* disburse_rewards without the assert on the contract's balance
disburse_rewards_unchecked(s, beneficiaries, amount, failed) ==
    IF Len(beneficiaries) = 0 THEN Panic(DivideByZero, s)
    ELSE
        LET amount_per_beneficiary == amount \div Len(beneficiaries)
            remainder == amount % Len(beneficiaries)
            r == disburse_loop(s, beneficiaries, amount_per_beneficiary,
                               failed, 1)
        IN  IF r.err # Ok THEN r
            ELSE IF r.st.unclaimed_funds + remainder > MaxBalance
                 THEN Panic(BalanceOverflow, r.st)
            ELSE Done([r.st EXCEPT !.unclaimed_funds = @ + remainder])

disburse_rewards(s, beneficiaries, amount, failed) ==
    IF ~(s.balances[Contract] >= amount) THEN Panic(InsufficientFunds, s)
    ELSE IF Len(beneficiaries) = 0 THEN Panic(DivideByZero, s)
    ELSE
        LET amount_per_beneficiary == amount \div Len(beneficiaries)
            remainder == amount % Len(beneficiaries)
            r == disburse_loop(s, beneficiaries, amount_per_beneficiary,
                               failed, 1)
        IN  IF r.err # Ok THEN r
            ELSE IF r.st.unclaimed_funds + remainder > MaxBalance
                 THEN Panic(BalanceOverflow, r.st)
            ELSE Done([r.st EXCEPT !.unclaimed_funds = @ + remainder])

\* randomly_select_members with `+ 2 * i` in place of `+ i`
randomly_select_members_strided(s, block) ==
    [i \in 1..NumParticipants |->
        s.members[((block + 2 * (i - 1)) % Len(s.members)) + 1]]

\* randomly_select_members that selects no more slots than members
randomly_select_members_capped(s, block) ==
    [i \in 1..(IF Len(s.members) < NumParticipants
               THEN Len(s.members) ELSE NumParticipants) |->
        s.members[((block + (i - 1)) % Len(s.members)) + 1]]

\* randomly_select_members without the `+ i`
randomly_select_members_same(s, block) ==
    [i \in 1..NumParticipants |-> s.members[(block % Len(s.members)) + 1]]

randomly_select_members(s, block) ==
    [i \in 1..NumParticipants |->
        s.members[((block + (i - 1)) % Len(s.members)) + 1]]

randomly_select_task(s, block) == s.tasks[(block % Len(s.tasks)) + 1]

\* start_new_era that reopens the task it selects
start_new_era_reopens(s, block, checks) ==
    IF ensure_era_reached(s, block, checks) # Ok
    THEN Panic(ensure_era_reached(s, block, checks), s)
    ELSE IF ensure_active_task_complete(s) # Ok
    THEN Panic(ensure_active_task_complete(s), s)
    ELSE IF ~ensure_non_empty_members(s) THEN Panic(NoMembers, s)
    ELSE IF ~ensure_non_empty_tasks(s) THEN Panic(NoTasks, s)
    ELSE Done([s EXCEPT
                  !.last_selection = block,
                  !.active_participants = randomly_select_members(s, block),
                  !.active_task = Some(randomly_select_task(s, block), FALSE),
                  !.task_info[randomly_select_task(s, block)] = <<FALSE, 0>>])

start_new_era(s, block, checks) ==
    IF ensure_era_reached(s, block, checks) # Ok
    THEN Panic(ensure_era_reached(s, block, checks), s)
    ELSE IF ensure_active_task_complete(s) # Ok
    THEN Panic(ensure_active_task_complete(s), s)
    ELSE IF ~ensure_non_empty_members(s) THEN Panic(NoMembers, s)
    ELSE IF ~ensure_non_empty_tasks(s) THEN Panic(NoTasks, s)
    ELSE Done([s EXCEPT
                  !.last_selection = block,
                  !.active_participants = randomly_select_members(s, block),
                  !.active_task = Some(randomly_select_task(s, block), FALSE)])

\* upload_completion_proof that also sets the completion flag
upload_completion_proof_marks_complete(s, caller, proof) ==
    IF ~Contains(s.active_participants, caller)
    THEN Panic(NotActiveParticipant, s)
    ELSE IF s.active_task = None THEN Panic(NoActiveTask, s)
    ELSE Done([s EXCEPT !.proofs[s.active_task[1]] = proof,
                        !.active_task = Some(s.active_task[1], TRUE)])

\* upload_completion_proof without the assert on the caller
upload_completion_proof_unchecked(s, caller, proof) ==
    IF s.active_task = None THEN Panic(NoActiveTask, s)
    ELSE Done([s EXCEPT !.proofs[s.active_task[1]] = proof])

upload_completion_proof(s, caller, proof) ==
    IF ~Contains(s.active_participants, caller)
    THEN Panic(NotActiveParticipant, s)
    ELSE IF s.active_task = None THEN Panic(NoActiveTask, s)
    ELSE Done([s EXCEPT !.proofs[s.active_task[1]] = proof])

\* complete_task without `self.task_info.insert(&task.0, &(true, 0))`
complete_task_keeps_balance(s, caller, failed) ==
    IF ~ensure_owner(s, caller) THEN Panic(NotOwner, s)
    ELSE IF s.active_task = None THEN Done(s)
    ELSE
        LET task == s.active_task
            marked == [s EXCEPT !.active_task = Some(task[1], TRUE)]
            info == s.task_info[task[1]]
        IN  IF info = Absent THEN Panic(TaskMustExist, marked)
            ELSE disburse_rewards(marked, s.active_participants,
                                  info[2], failed)

\* complete_task with `expect` in place of `if let Some(task)`
complete_task_expects(s, caller, failed) ==
    IF ~ensure_owner(s, caller) THEN Panic(NotOwner, s)
    ELSE IF s.active_task = None THEN Panic(NoActiveTask, s)
    ELSE
        LET task == s.active_task
            marked == [s EXCEPT !.active_task = Some(task[1], TRUE)]
            info == s.task_info[task[1]]
        IN  IF info = Absent THEN Panic(TaskMustExist, marked)
            ELSE
                LET r == disburse_rewards(marked, s.active_participants,
                                          info[2], failed)
                IN  IF r.err # Ok THEN r
                    ELSE Done([r.st EXCEPT
                                  !.task_info[task[1]] = <<TRUE, 0>>])

\* complete_task without the call of disburse_rewards
complete_task_no_disbursement(s, caller, failed) ==
    IF ~ensure_owner(s, caller) THEN Panic(NotOwner, s)
    ELSE IF s.active_task = None THEN Done(s)
    ELSE
        LET task == s.active_task
            marked == [s EXCEPT !.active_task = Some(task[1], TRUE)]
            info == s.task_info[task[1]]
        IN  IF info = Absent THEN Panic(TaskMustExist, marked)
            ELSE Done([marked EXCEPT !.task_info[task[1]] = <<TRUE, 0>>])

\* complete_task that inserts (true, funds) in place of (true, 0)
complete_task_keeps_funds(s, caller, failed) ==
    IF ~ensure_owner(s, caller) THEN Panic(NotOwner, s)
    ELSE IF s.active_task = None THEN Done(s)
    ELSE
        LET task == s.active_task
            marked == [s EXCEPT !.active_task = Some(task[1], TRUE)]
            info == s.task_info[task[1]]
        IN  IF info = Absent THEN Panic(TaskMustExist, marked)
            ELSE
                LET r == disburse_rewards(marked, s.active_participants,
                                          info[2], failed)
                IN  IF r.err # Ok THEN r
                    ELSE Done([r.st EXCEPT
                                  !.task_info[task[1]] = <<TRUE, info[2]>>])

complete_task(s, caller, failed) ==
    IF ~ensure_owner(s, caller) THEN Panic(NotOwner, s)
    ELSE IF s.active_task = None THEN Done(s)
    ELSE
        LET task == s.active_task
            marked == [s EXCEPT !.active_task = Some(task[1], TRUE)]
            info == s.task_info[task[1]]
        IN  IF info = Absent THEN Panic(TaskMustExist, marked)
            ELSE
                LET r == disburse_rewards(marked, s.active_participants,
                                          info[2], failed)
                IN  IF r.err # Ok THEN r
                    ELSE Done([r.st EXCEPT
                                  !.task_info[task[1]] = <<TRUE, 0>>])

\* ---------------------------------------------------------- the dispatcher
\* a dispatcher that keeps what a panicking message wrote before it panicked
CommitPartial(s, r) == r.st

\* The storage after a call: a message that panics traps, and the call's
\* writes and transfers are reverted as a whole.
Commit(s, r) == IF r.err = Ok THEN r.st ELSE s

Dispatch(r) ==
    LET after == Commit(Cur, r)
    IN  /\ owner' = after.owner
        /\ members' = after.members
        /\ is_member' = after.is_member
        /\ tasks' = after.tasks
        /\ task_info' = after.task_info
        /\ unclaimed_funds' = after.unclaimed_funds
        /\ start_block' = after.start_block
        /\ next_selection' = after.next_selection
        /\ last_selection' = after.last_selection
        /\ active_participants' = after.active_participants
        /\ active_task' = after.active_task
        /\ proofs' = after.proofs
        /\ balances' = after.balances
        /\ UNCHANGED <<block_number, overflow_checks>>

\* ---------------------------------------------------------------- actions
\* Each action is a message called with inputs drawn from the given sets:
\* P callers, T task names, A attached values, E selection eras, H proof
\* hashes, F sets of beneficiary positions whose transfer is refused.
SetSelectionEra(P, E) ==
    \E caller \in P, selection_era \in E :
        Dispatch(set_selection_era(Cur, caller, selection_era))

RegisterMember(P) ==
    \E caller \in P :
        Dispatch(register_member(Cur, caller))

DeregisterMember(P) ==
    \E caller \in P :
        Dispatch(deregister_member(Cur, caller))

ClearMembers(P) ==
    \E caller \in P :
        Dispatch(clear_members(Cur, caller))

AddTask(P, T) ==
    \E caller \in P, task \in T :
        Dispatch(add_task(Cur, caller, task))

RemoveTask(P, T) ==
    \E caller \in P, task \in T :
        Dispatch(remove_task(Cur, caller, task))

ClearTasks(P) ==
    \E caller \in P :
        Dispatch(clear_tasks(Cur, caller))

\* the caller can attach only what it holds and the contract can receive
FundTask(P, T, A) ==
    \E caller \in P, task \in T, transferred \in A :
        /\ transferred <= balances[caller]
        /\ balances[Contract] + transferred <= MaxBalance
        /\ Dispatch(fund_task(Cur, caller, task, transferred))

StartNewEra ==
    Dispatch(start_new_era(Cur, block_number, overflow_checks))

UploadCompletionProof(P, H) ==
    \E caller \in P, proof \in H :
        Dispatch(upload_completion_proof(Cur, caller, proof))

CompleteTask(P, F) ==
    \E caller \in P, failed \in F :
        Dispatch(complete_task(Cur, caller, failed))

\* the chain produces a block
AdvanceBlock ==
    /\ block_number < MaxBlock
    /\ block_number' = block_number + 1
    /\ UNCHANGED <<storage, balances, overflow_checks>>

\* tests::set_balance: the environment sets an account's balance
SetBalance(accounts, values) ==
    \E a \in accounts, v \in values :
        /\ balances' = [balances EXCEPT ![a] = v]
        /\ UNCHANGED <<storage, block_number, overflow_checks>>

\* ------------------------------------------------------------------- Init
\* The contract right after `new`, called by a principal of c.deployers at
\* a block of c.init_blocks with a selection era of c.E, in a build of
\* c.builds, the accounts holding c.balances.
InitOf(c) ==
    /\ overflow_checks \in c.builds
    /\ block_number \in c.init_blocks
    /\ \E caller \in c.deployers, selection_era \in c.E :
          LET s == new(caller, selection_era, block_number, c.balances)
          IN  /\ owner = s.owner
              /\ members = s.members
              /\ is_member = s.is_member
              /\ tasks = s.tasks
              /\ task_info = s.task_info
              /\ unclaimed_funds = s.unclaimed_funds
              /\ start_block = s.start_block
              /\ next_selection = s.next_selection
              /\ last_selection = s.last_selection
              /\ active_participants = s.active_participants
              /\ active_task = s.active_task
              /\ proofs = s.proofs
              /\ balances = s.balances

NextOf(c) ==
    \/ SetSelectionEra(c.P, c.E)
    \/ RegisterMember(c.P)
    \/ DeregisterMember(c.P)
    \/ ClearMembers(c.P)
    \/ AddTask(c.P, c.T)
    \/ RemoveTask(c.P, c.T)
    \/ ClearTasks(c.P)
    \/ FundTask(c.P, c.T, c.A)
    \/ StartNewEra
    \/ UploadCompletionProof(c.P, c.H)
    \/ CompleteTask(c.P, c.F)
    \/ AdvanceBlock

\* tests::disburse_rewards_works calls disburse_rewards on a contract whose
\* beneficiaries hold nothing yet
DisburseRewards(B, A, F) ==
    \E beneficiaries \in B, amount \in A, failed \in F :
        /\ unclaimed_funds = 0
        /\ \A p \in Principals : balances[p] = 0
        /\ Dispatch(disburse_rewards(Cur, beneficiaries, amount, failed))

\* -------------------------------------------------------- specifications
\* Every specification of the contract calls every message; they differ in
\* the inputs the callers draw from.
OnlyAlice == [a \in Accounts |-> IF a = "alice" THEN InitialFunds ELSE 0]

\* two callers, both tasks, one era length, transfers that all succeed
Main ==
    [P |-> {"alice", "bob"}, T |-> TaskNames, A |-> {5}, E |-> {1},
     H |-> {"0x01"}, F |-> {{}},
     deployers |-> {"alice"}, init_blocks |-> {0}, builds |-> {TRUE},
     balances |-> OnlyAlice]

Init == InitOf(Main)
Next == NextOf(Main)
Spec == Init /\ [][Next]_vars

\* the member registry: three principals call, and attach no value
Members ==
    [P |-> {"alice", "bob", "charlie"}, T |-> {"Task 1"}, A |-> {0},
     E |-> {1}, H |-> {"0x01"}, F |-> {{}},
     deployers |-> {"alice"}, init_blocks |-> {0}, builds |-> {TRUE},
     balances |-> OnlyAlice]

InitMembers == InitOf(Members)
NextMembers == NextOf(Members)
SpecMembers == InitMembers /\ [][NextMembers]_vars

\* the era gate: the owner alone calls, with every era length from none to
\* the largest u32, in both builds, instantiated at two heights
Era ==
    [P |-> {"alice"}, T |-> {"Task 1"}, A |-> {5},
     E |-> {0, 1, 2, MaxU32}, H |-> {"0x01"}, F |-> {{}},
     deployers |-> {"alice"}, init_blocks |-> {0, 1}, builds |-> BOOLEAN,
     balances |-> OnlyAlice]

InitEra == InitOf(Era)
NextEra == NextOf(Era)
SpecEra == InitEra /\ [][NextEra]_vars

\* the funds: the owner alone calls, attaching the largest balance, and the
\* environment sets balances as tests::set_balance does, so that a balance
\* overflow and a contract short of funds are reached
Funds ==
    [P |-> {"alice"}, T |-> {"Task 1"}, A |-> {MaxBalance},
     E |-> {1}, H |-> {"0x01"}, F |-> {{}, {2}},
     deployers |-> {"alice"}, init_blocks |-> {0}, builds |-> {TRUE},
     balances |-> [a \in Accounts |-> IF a = "alice" THEN MaxBalance ELSE 0]]

InitFunds == InitOf(Funds)
NextFunds ==
    \/ NextOf(Funds)
    \/ SetBalance({"alice"}, {MaxBalance})
    \/ SetBalance({Contract}, {0})
SpecFunds == InitFunds /\ [][NextFunds]_vars

\* the task registry: the owner alone calls, with both task names, and
\* attaches half of what it holds, so that both tasks get funded, or one
\* twice
Tasks ==
    [P |-> {"alice"}, T |-> TaskNames, A |-> {3}, E |-> {1},
     H |-> {"0x01"}, F |-> {{}},
     deployers |-> {"alice"}, init_blocks |-> {0}, builds |-> {TRUE},
     balances |-> OnlyAlice]

InitTasks == InitOf(Tasks)
NextTasks == NextOf(Tasks)
SpecTasks == InitTasks /\ [][NextTasks]_vars

\* the selection: four principals register, the owner alone calls the other
\* messages, so that registries of 1 to 4 members are selected from
\* (tests::start_new_era_works registers its members one caller after the
\* other, then the owner adds the tasks and starts the era)
Selection ==
    [P |-> {"alice"}, T |-> {"Task 1"}, A |-> {0}, E |-> {1},
     H |-> {"0x01"}, F |-> {{}},
     deployers |-> {"alice"}, init_blocks |-> {0}, builds |-> {TRUE},
     balances |-> OnlyAlice]

InitSelection == InitOf(Selection)
NextSelection ==
    \/ NextOf(Selection)
    \/ RegisterMember({"alice", "bob", "charlie", "django"})
SpecSelection == InitSelection /\ [][NextSelection]_vars

\* disburse_rewards on its own, as tests::disburse_rewards_works calls it:
\* the contract holds 5, 75 or the largest balance, the beneficiaries are
\* 1 to 4 principals, and at most one of their transfers is refused
BeneficiaryLists ==
    UNION {[1..n -> {"bob", "charlie", "django", "eve"}] :
              n \in 1..NumParticipants}
DistinctBeneficiaries ==
    {l \in BeneficiaryLists : Cardinality(Range(l)) = Len(l)}
DisburseAmounts == {0, 3, 5, 75, MaxBalance}
RefusedTransfers == {{}} \cup {{k} : k \in 1..NumParticipants}
Harness ==
    [E |-> {1}, deployers |-> {"alice"}, init_blocks |-> {0},
     builds |-> {TRUE},
     balances |-> [a \in Accounts |-> 0]]

InitDisburse == InitOf(Harness)
NextDisburse ==
    \/ SetBalance({Contract}, {5, 75, MaxBalance})
    \/ DisburseRewards(DistinctBeneficiaries, DisburseAmounts,
                       RefusedTransfers)
SpecDisburse == InitDisburse /\ [][NextDisburse]_vars


\* ----------------------------------------------------------------- claims
NoDuplicates(seq) == \A i, j \in 1..Len(seq) : seq[i] = seq[j] => i = j

\* C1: in every reachable state the members sequence and the is_member set
\* hold exactly the same principals, and no principal is in the sequence
\* twice.
MembersMatchIsMember ==
    /\ Range(members) = is_member
    /\ NoDuplicates(members)

\* a registry that three principals joined and the first one left: the last
\* one took its slot
MembersAfterSwapRemove ==
    /\ members = <<"charlie", "bob">>
    /\ is_member = {"bob", "charlie"}

\* C2: in every reachable state a task name is in the tasks sequence iff
\* task_info has an entry for it, and no name is in the sequence twice.
TasksMatchTaskInfo ==
    /\ \A t \in TaskNames : Contains(tasks, t) <=> task_info[t] # Absent
    /\ NoDuplicates(tasks)

\* a funded task was removed while it was the active one, the other task
\* stays
TasksAfterRemove ==
    /\ tasks = <<"Task 2">>
    /\ unclaimed_funds = 5
    /\ active_task = Some("Task 1", FALSE)


\* what start_new_era does when called in the current state
StartNewEraNow == start_new_era(Cur, block_number, overflow_checks)

EraNotReachedFails ==
    block_number - last_selection < next_selection =>
        /\ StartNewEraNow.err = EraNotReached
        /\ Commit(Cur, StartNewEraNow).active_participants = active_participants
        /\ Commit(Cur, StartNewEraNow).active_task = active_task
        /\ Commit(Cur, StartNewEraNow).last_selection = last_selection


\* the storage and the balances after the step
CurNext ==
    [owner |-> owner', members |-> members', is_member |-> is_member',
     tasks |-> tasks', task_info |-> task_info',
     unclaimed_funds |-> unclaimed_funds', start_block |-> start_block',
     next_selection |-> next_selection', last_selection |-> last_selection',
     active_participants |-> active_participants',
     active_task |-> active_task', proofs |-> proofs',
     balances |-> balances']

\* C5: across every step last_selection never decreases; it changes only in
\* a successful start_new_era, which sets it to the current block height,
\* and only when current_block - old last_selection >= next_selection.
LastSelectionAdvances ==
    [][/\ last_selection' >= last_selection
       /\ last_selection' # last_selection =>
             /\ StartNewEraNow.err = Ok
             /\ CurNext = StartNewEraNow.st
             /\ last_selection' = block_number
             /\ block_number - last_selection >= next_selection]_vars


\* C6: a successful start_new_era at block b with members M and tasks T
\* sets active_participants to the 4 members M[(b + i) mod |M|], i = 0..3,
\* active_task to (T[b mod |T|], false) and last_selection to b.
EraSelection ==
    StartNewEraNow.err = Ok =>
        LET after == Commit(Cur, StartNewEraNow)
        IN  /\ after.active_participants =
                  [k \in 1..4 |->
                      members[((block_number + k - 1) % Len(members)) + 1]]
            /\ after.active_task =
                  <<tasks[(block_number % Len(tasks)) + 1], FALSE>>
            /\ after.last_selection = block_number

\* the era started at block 1 with two members and two tasks
EraStartedAtBlockOne ==
    /\ block_number = 1 /\ last_selection = 1 /\ start_block = 0
    /\ members = <<"alice", "bob">>
    /\ tasks = <<"Task 1", "Task 2">>
    /\ active_participants = <<"bob", "alice", "bob", "alice">>
    /\ active_task = <<"Task 2", FALSE>>

\* the number of positions of seq that hold p and whose transfer is not in
\* the set `failed`
Paid(seq, p, failed) ==
    Cardinality({k \in 1..Len(seq) : seq[k] = p /\ k \notin failed})

\* C8: disbursing amount A over n >= 1 beneficiaries, all transfers
\* succeeding and no balance overflowing, succeeds, gives each beneficiary
\* A div n for each of its positions, adds A mod n to unclaimed_funds, and
\* what left the contract plus what was added to unclaimed_funds is A.
ExactDisbursement ==
    \A amount \in DisburseAmounts, beneficiaries \in BeneficiaryLists :
        LET n == Len(beneficiaries)
            share == amount \div n
            remainder == amount % n
            r == disburse_rewards(Cur, beneficiaries, amount, {})
        IN  (/\ amount <= balances[Contract]
             /\ unclaimed_funds + remainder <= MaxBalance
             /\ \A p \in Principals :
                   balances[p] + share * Paid(beneficiaries, p, {})
                      <= MaxBalance)
            => /\ r.err = Ok
               /\ \A p \in Principals :
                     r.st.balances[p] =
                        balances[p] + share * Paid(beneficiaries, p, {})
               /\ r.st.unclaimed_funds = unclaimed_funds + remainder
               /\ (balances[Contract] - r.st.balances[Contract])
                     + (r.st.unclaimed_funds - unclaimed_funds) = amount

\* 75 was disbursed over four beneficiaries: 18 each, 3 unclaimed, and the
\* contract keeps the 3
SeventyFiveOverFour ==
    /\ \A p \in {"bob", "charlie", "django", "eve"} : balances[p] = 18
    /\ unclaimed_funds = 3
    /\ balances[Contract] = 3

\* C9: a transfer that fails does not abort the disbursement: on a contract
\* whose beneficiaries hold nothing and whose unclaimed pool is empty,
\* disbursing amount A over n beneficiaries succeeds for every set F of
\* positions whose transfer fails, unclaimed_funds grows by
\* |F| * (A div n) + (A mod n), and every position not in F receives A div n.
FailedTransfersGoUnclaimed ==
    (unclaimed_funds = 0 /\ \A p \in Principals : balances[p] = 0) =>
        \A amount \in DisburseAmounts, beneficiaries \in BeneficiaryLists :
            amount <= balances[Contract] =>
                \A failed \in SUBSET (1..Len(beneficiaries)) :
                    LET n == Len(beneficiaries)
                        share == amount \div n
                        r == disburse_rewards(Cur, beneficiaries, amount,
                                              failed)
                    IN  /\ r.err = Ok
                        /\ r.st.unclaimed_funds =
                              unclaimed_funds
                                 + Cardinality(failed) * share + (amount % n)
                        /\ \A p \in Principals :
                              r.st.balances[p] =
                                 balances[p]
                                    + share * Paid(beneficiaries, p, failed)
                        /\ r.st.balances[Contract] =
                              balances[Contract]
                                 - (n - Cardinality(failed)) * share

\* 75 was disbursed over four beneficiaries and the transfer to bob failed:
\* bob's 18 went to unclaimed_funds with the remainder of 3
BobsShareUnclaimed ==
    /\ balances["bob"] = 0
    /\ \A p \in {"charlie", "django", "eve"} : balances[p] = 18
    /\ unclaimed_funds = 21
    /\ balances[Contract] = 21

\* what complete_task does when the owner calls it in the current state and
\* the transfers at the positions of `failed` are refused
CompleteTaskNow(failed) == complete_task(Cur, owner, failed)

\* the outcomes of every message called in the current state: by the owner
\* and by another principal, with either task name, an attached value the
\* caller holds, and any set of refused transfers
CallsNow ==
    LET callers == {"alice", "bob"}
    IN  UNION {
          {set_selection_era(Cur, c, e) : c \in callers, e \in {0, MaxU32}},
          {register_member(Cur, c) : c \in callers},
          {deregister_member(Cur, c) : c \in callers},
          {clear_members(Cur, c) : c \in callers},
          {add_task(Cur, c, t) : c \in callers, t \in TaskNames},
          {remove_task(Cur, c, t) : c \in callers, t \in TaskNames},
          {clear_tasks(Cur, c) : c \in callers},
          UNION {{fund_task(Cur, c, t, a) : t \in TaskNames,
                     a \in {v \in {0, MaxBalance} :
                               /\ v <= balances[c]
                               /\ balances[Contract] + v <= MaxBalance}} :
                  c \in callers},
          {StartNewEraNow},
          {upload_completion_proof(Cur, c, h) : c \in callers, h \in Hashes},
          {complete_task(Cur, "bob", {})},
          {CompleteTaskNow(f) : f \in SUBSET (1..NumParticipants)}}

InsufficientFundsAborts ==
    (/\ active_task # None
     /\ task_info[active_task[1]] # Absent
     /\ balances[Contract] < task_info[active_task[1]][2])
    => \A failed \in SUBSET (1..NumParticipants) :
          LET r == CompleteTaskNow(failed)
              after == Commit(Cur, r)
          IN  /\ r.err = InsufficientFunds
              /\ r.st.balances = balances
              /\ r.st.unclaimed_funds = unclaimed_funds
              /\ after.active_task = active_task
              /\ after.task_info = task_info
              /\ after.balances = balances
              /\ after.unclaimed_funds = unclaimed_funds

\* an era is running on a task funded with more than the contract holds
ContractShortOfFunds ==
    /\ active_task = Some("Task 1", FALSE)
    /\ task_info["Task 1"] = <<FALSE, MaxBalance>>
    /\ balances[Contract] = 0
    /\ Len(active_participants) = NumParticipants
    /\ CompleteTaskNow({}).err = InsufficientFunds

\* the sum of f over the set S
RECURSIVE SumOver(_, _)
SumOver(f, S) ==
    IF S = {} THEN 0
    ELSE LET x == CHOOSE y \in S : TRUE
         IN  f[x] + SumOver(f, S \ {x})

\* C11: a successful complete_task by the owner with active_task =
\* Some((t, _)) leaves active_task = (t, true) and task_info[t] = (true, 0),
\* and what the principals received plus what unclaimed_funds gained is the
\* balance task_info[t] held before the call.
CompleteTaskMarksAndResets ==
    active_task # None =>
        \A failed \in SUBSET (1..NumParticipants) :
            LET r == CompleteTaskNow(failed)
                t == active_task[1]
                received == [p \in Principals |->
                                r.st.balances[p] - balances[p]]
            IN  r.err = Ok =>
                    /\ r.st.active_task = Some(t, TRUE)
                    /\ r.st.task_info[t] = <<TRUE, 0>>
                    /\ SumOver(received, Principals)
                          + (r.st.unclaimed_funds - unclaimed_funds)
                          = task_info[t][2]
                    /\ balances[Contract] - r.st.balances[Contract]
                          = SumOver(received, Principals)

\* the task funded twice with 3 was completed: 1 for each of the 4
\* participants and 2 unclaimed, which the contract keeps
TaskOneCompleted ==
    /\ active_task = Some("Task 1", TRUE)
    /\ task_info["Task 1"] = <<TRUE, 0>>
    /\ unclaimed_funds = 2
    /\ balances[Contract] = 2
    /\ balances["alice"] = 4

\* C12: complete_task called by the owner while active_task is None
\* succeeds and changes nothing: no field of the storage and no balance.
CompleteTaskWithoutActiveTask ==
    active_task = None =>
        \A failed \in SUBSET (1..NumParticipants) :
            /\ CompleteTaskNow(failed).err = Ok
            /\ CompleteTaskNow(failed).st = Cur

\* no era was ever started, although members, a funded task and the block
\* height would allow one
NoEraStartedYet ==
    /\ active_task = None
    /\ Len(members) = 2
    /\ task_info["Task 1"] = <<FALSE, 5>>
    /\ StartNewEraNow.err = Ok
    /\ CompleteTaskNow({}).err = Ok

\* the storage s with the order of the tasks sequence left out
TasksUnordered(s) == [s EXCEPT !.tasks = Range(s.tasks)]

\* fund_task(t, a) by c, then remove_task(t) by the owner
FundThenRemove(c, t, a) ==
    remove_task(fund_task(Cur, c, t, a).st, owner, t)

\* C13 as stated: for every existing, incomplete task t and amount a,
\* fund_task(t, a) followed by the owner's remove_task(t), both succeeding,
\* increases unclaimed_funds by exactly a and removes t.
FundThenRemoveMovesAmount ==
    \A c \in Principals, t \in TaskNames :
        (task_info[t] # Absent /\ ~task_info[t][1]) =>
            \A a \in 0..balances[c] :
                (fund_task(Cur, c, t, a).err = Ok
                    /\ FundThenRemove(c, t, a).err = Ok)
                => /\ FundThenRemove(c, t, a).st.unclaimed_funds =
                         unclaimed_funds + a
                   /\ FundThenRemove(c, t, a).st.task_info[t] = Absent

\* C13 as amended: for every existing, incomplete task t holding b and
\* every amount a the caller holds, fund_task(t, a) followed by the owner's
\* remove_task(t) succeeds (no balance overflowing), increases
\* unclaimed_funds by exactly b + a, removes t, moves a from the caller to
\* the contract, and changes nothing else.
FundThenRemoveSweepsBalance ==
    \A c \in Principals, t \in TaskNames :
        (task_info[t] # Absent /\ ~task_info[t][1]) =>
            \A a \in 0..balances[c] :
                LET b == task_info[t][2]
                IN  (/\ b + a <= MaxBalance
                     /\ unclaimed_funds + b + a <= MaxBalance
                     /\ balances[Contract] + a <= MaxBalance)
                    => /\ fund_task(Cur, c, t, a).err = Ok
                       /\ FundThenRemove(c, t, a).err = Ok
                       /\ Len(FundThenRemove(c, t, a).st.tasks)
                             = Len(tasks) - 1
                       /\ TasksUnordered(FundThenRemove(c, t, a).st) =
                             [Cur EXCEPT
                                !.tasks = Range(tasks) \ {t},
                                !.task_info[t] = Absent,
                                !.unclaimed_funds = @ + b + a,
                                !.balances[c] = @ - a,
                                !.balances[Contract] = @ + a]

\* Task 1 was funded twice with 3 and then removed; Task 2 never held
\* anything
TwiceFundedTaskRemoved ==
    /\ tasks = <<"Task 2">>
    /\ task_info["Task 1"] = Absent
    /\ task_info["Task 2"] = <<FALSE, 0>>
    /\ unclaimed_funds = 6
    /\ balances[Contract] = 6
    /\ active_task = None

\* C14: remove_task(name) by the owner on an existing task deletes its
\* task_info entry, removes the name from the tasks sequence and increases
\* unclaimed_funds by the task's balance; on a name without an entry it
\* panics with 'Task does not exist' and changes nothing.
RemoveTaskSweeps ==
    \A t \in TaskNames :
        LET r == remove_task(Cur, owner, t)
        IN  IF task_info[t] = Absent
            THEN /\ r.err = TaskNotFound
                 /\ r.st = Cur
                 /\ Commit(Cur, r) = Cur
            ELSE /\ r.err = Ok
                 /\ Len(r.st.tasks) = Len(tasks) - 1
                 /\ TasksUnordered(r.st) =
                       [Cur EXCEPT
                          !.tasks = Range(tasks) \ {t},
                          !.task_info[t] = Absent,
                          !.unclaimed_funds = @ + task_info[t][2]]

\* both tasks were funded and Task 1 was removed: its 3 are unclaimed, and
\* removing it again fails
FundedTaskRemoved ==
    /\ tasks = <<"Task 2">>
    /\ task_info["Task 1"] = Absent
    /\ task_info["Task 2"] = <<FALSE, 3>>
    /\ unclaimed_funds = 3
    /\ remove_task(Cur, owner, "Task 1").err = TaskNotFound

\* remove_task by the owner for names[i], names[i + 1], ... in turn
RECURSIVE RemoveEach(_, _, _)
RemoveEach(s, names, i) ==
    IF i > Len(names) THEN Done(s)
    ELSE LET r == remove_task(s, s.owner, names[i])
         IN  IF r.err # Ok THEN r ELSE RemoveEach(r.st, names, i + 1)

\* C15: clear_tasks by the owner succeeds and yields the state that
\* remove_task called once for every task of the tasks sequence yields:
\* tasks and task_info are empty and unclaimed_funds has grown by the sum
\* of all task balances.
ClearTasksIsRemoveEach ==
    LET c == clear_tasks(Cur, owner)
        e == RemoveEach(Cur, tasks, 1)
    IN  /\ c.err = Ok
        /\ e.err = Ok
        /\ c.st = e.st
        /\ c.st.tasks = <<>>
        /\ \A t \in TaskNames : c.st.task_info[t] = Absent
        /\ c.st.unclaimed_funds =
              unclaimed_funds
                 + SumOver([t \in Range(tasks) |-> task_info[t][2]],
                           Range(tasks))
        /\ c.st = [Cur EXCEPT !.tasks = <<>>,
                              !.task_info = c.st.task_info,
                              !.unclaimed_funds = c.st.unclaimed_funds]

\* two funded tasks that clear_tasks sweeps into unclaimed_funds
TwoFundedTasksToClear ==
    /\ tasks = <<"Task 2", "Task 1">>
    /\ task_info["Task 1"] = <<FALSE, 3>>
    /\ task_info["Task 2"] = <<FALSE, 3>>
    /\ unclaimed_funds = 0
    /\ clear_tasks(Cur, owner).st.unclaimed_funds = 6
    /\ clear_tasks(Cur, owner).st.tasks = <<>>

\* C16: fund_task(name, amount) by any caller panics with 'Task does not
\* exist' when name has no entry and with 'Task already completed' when
\* its completion flag is true, changing nothing; otherwise it adds amount
\* to that task's balance, moves amount from the caller to the contract and
\* changes nothing else.
FundTaskAdds ==
    \A c \in Principals, t \in TaskNames :
        \A a \in 0..balances[c] :
            LET r == fund_task(Cur, c, t, a)
            IN  IF task_info[t] = Absent
                THEN r.err = TaskNotFound /\ Commit(Cur, r) = Cur
                ELSE IF task_info[t][1]
                THEN r.err = TaskAlreadyComplete /\ Commit(Cur, r) = Cur
                ELSE /\ r.err = Ok
                     /\ r.st = [Cur EXCEPT
                                  !.task_info[t] =
                                     <<FALSE, task_info[t][2] + a>>,
                                  !.balances[c] = @ - a,
                                  !.balances[Contract] = @ + a]

\* the owner left the registry and funded Task 1 twice; Task 2 is
\* complete, and funding it fails
FundedByNonMember ==
    /\ is_member = {}
    /\ task_info["Task 1"] = <<FALSE, 3>>
    /\ task_info["Task 2"] = <<TRUE, 0>>
    /\ balances[Contract] = 3
    /\ balances["alice"] = 3
    /\ fund_task(Cur, "alice", "Task 2", 3).err = TaskAlreadyComplete

\* the step is a successful call of remove_task, clear_tasks or
\* complete_task
SweepOrDisbursement ==
    \E c \in Principals :
        \/ \E task \in TaskNames :
              /\ remove_task(Cur, c, task).err = Ok
              /\ CurNext = remove_task(Cur, c, task).st
        \/ /\ clear_tasks(Cur, c).err = Ok
           /\ CurNext = clear_tasks(Cur, c).st
        \/ \E failed \in SUBSET (1..NumParticipants) :
              /\ complete_task(Cur, c, failed).err = Ok
              /\ CurNext = complete_task(Cur, c, failed).st

\* C17: unclaimed_funds starts at 0 and never decreases across a step; a
\* step that changes it is a successful remove_task, clear_tasks or
\* complete_task.
UnclaimedFundsOnlyGrow ==
    /\ unclaimed_funds = 0
    /\ [][/\ unclaimed_funds' >= unclaimed_funds
          /\ unclaimed_funds' # unclaimed_funds => SweepOrDisbursement]_vars

\* Task 1, funded with 3, was completed: 3 over 4 participants is 0 each,
\* and the remainder of 3 is unclaimed
RemainderUnclaimed ==
    /\ active_task = Some("Task 1", TRUE)
    /\ task_info["Task 1"] = <<TRUE, 0>>
    /\ task_info["Task 2"] = Absent
    /\ unclaimed_funds = 3
    /\ balances[Contract] = 3
    /\ balances["alice"] = 3

\* C18: a balance addition whose result exceeds the largest Balance aborts
\* the operation with 'Balance overflow' (fund_task on the task's balance;
\* remove_task, clear_tasks and the disbursement of complete_task on
\* unclaimed_funds), and one that succeeds stores the exact sum; no stored
\* balance is out of the type's range.
BalanceAdditionsChecked ==
    /\ unclaimed_funds \in 0..MaxBalance
    /\ \A t \in TaskNames :
          task_info[t] # Absent =>
            /\ task_info[t][2] \in 0..MaxBalance
            /\ LET r == remove_task(Cur, owner, t)
                   sum == unclaimed_funds + task_info[t][2]
               IN  IF sum > MaxBalance
                   THEN r.err = BalanceOverflow /\ Commit(Cur, r) = Cur
                   ELSE r.err = Ok /\ r.st.unclaimed_funds = sum
            /\ \A c \in Principals :
                 \A a \in {0, 1, MaxBalance} \cap (0..balances[c]) :
                    LET r == fund_task(Cur, c, t, a)
                        sum == task_info[t][2] + a
                    IN  ~task_info[t][1] =>
                           IF sum > MaxBalance
                           THEN /\ r.err = BalanceOverflow
                                /\ Commit(Cur, r) = Cur
                           ELSE /\ r.err = Ok
                                /\ r.st.task_info[t][2] = sum
    /\ LET r == clear_tasks(Cur, owner)
           sum == unclaimed_funds
                     + SumOver([t \in Range(tasks) |-> task_info[t][2]],
                               Range(tasks))
       IN  IF sum > MaxBalance
           THEN r.err = BalanceOverflow /\ Commit(Cur, r) = Cur
           ELSE r.err = Ok /\ r.st.unclaimed_funds = sum
    /\ (active_task # None /\ task_info[active_task[1]] # Absent) =>
          LET amount == task_info[active_task[1]][2]
          IN  /\ \A failed \in SUBSET (1..NumParticipants) :
                    LET r == CompleteTaskNow(failed)
                        received == [p \in Principals |->
                                        r.st.balances[p] - balances[p]]
                    IN  /\ r.err \in {Ok, BalanceOverflow,
                                       InsufficientFunds}
                        /\ r.err = Ok =>
                              r.st.unclaimed_funds =
                                 unclaimed_funds + amount
                                    - SumOver(received, Principals)
                        /\ r.err # Ok => Commit(Cur, r) = Cur
              /\ (balances[Contract] >= amount
                  /\ unclaimed_funds + amount > MaxBalance)
                 => CompleteTaskNow(1..NumParticipants).err
                       = BalanceOverflow

\* the task and the unclaimed pool both hold the largest balance: funding
\* the task, removing it and clearing the tasks all overflow
BalancesAtMaximum ==
    /\ task_info["Task 1"] = <<FALSE, MaxBalance>>
    /\ unclaimed_funds = MaxBalance
    /\ balances["alice"] = MaxBalance
    /\ balances[Contract] = 0
    /\ fund_task(Cur, "alice", "Task 1", MaxBalance).err = BalanceOverflow
    /\ remove_task(Cur, owner, "Task 1").err = BalanceOverflow
    /\ clear_tasks(Cur, owner).err = BalanceOverflow

\* the call panicked with 'Only owner can call' and had written nothing
NotOwnerAbort(r) ==
    /\ r.err = NotOwner
    /\ r.st = Cur
    /\ Commit(Cur, r) = Cur

\* C19: clear_members, remove_task, clear_tasks, set_selection_era and
\* complete_task panic with 'Only owner can call' and change nothing when
\* the caller is not the owner, and in every reachable state the owner is
\* the principal that called the constructor.
OwnerOnlyMessages ==
    /\ owner \in Members.deployers
    /\ \A c \in Principals \ {owner} :
          /\ NotOwnerAbort(clear_members(Cur, c))
          /\ \A t \in TaskNames : NotOwnerAbort(remove_task(Cur, c, t))
          /\ NotOwnerAbort(clear_tasks(Cur, c))
          /\ \A e \in 0..MaxU32 :
                NotOwnerAbort(set_selection_era(Cur, c, e))
          /\ \A failed \in SUBSET (1..NumParticipants) :
                NotOwnerAbort(complete_task(Cur, c, failed))

\* bob and charlie are members and participants of the running era, the
\* owner is not a member: the members' calls still fail
MembersAreNotOwner ==
    /\ members = <<"bob", "charlie">>
    /\ "alice" \notin is_member
    /\ active_task = Some("Task 1", FALSE)
    /\ Contains(active_participants, "bob")
    /\ complete_task(Cur, "bob", {}).err = NotOwner
    /\ clear_members(Cur, "charlie").err = NotOwner

\* C20: add_task(name) panics with 'Must be a member to call' when the
\* caller is not registered and with 'Task already exists' when name has
\* an entry, writing nothing; otherwise it creates task_info[name] =
\* (false, 0), appends name to the end of tasks and changes nothing else.
AddTaskAppends ==
    \A c \in Principals, t \in TaskNames :
        LET r == add_task(Cur, c, t)
        IN  IF c \notin is_member
            THEN r.err = NotMember /\ r.st = Cur /\ Commit(Cur, r) = Cur
            ELSE IF task_info[t] # Absent
            THEN r.err = TaskExists /\ r.st = Cur /\ Commit(Cur, r) = Cur
            ELSE /\ r.err = Ok
                 /\ r.st = [Cur EXCEPT !.task_info[t] = <<FALSE, 0>>,
                                       !.tasks = Append(tasks, t)]

\* Task 2 was added first and Task 1 after it; adding Task 1 again fails
TaskTwoThenTaskOne ==
    /\ tasks = <<"Task 2", "Task 1">>
    /\ task_info["Task 1"] = <<FALSE, 0>>
    /\ task_info["Task 2"] = <<FALSE, 0>>
    /\ "alice" \in is_member
    /\ add_task(Cur, "alice", "Task 1").err = TaskExists
    /\ add_task(Cur, "bob", "Task 1").err = NotMember

\* C21: upload_completion_proof(proof) panics with 'Caller must be active
\* participant' unless the caller is an element of active_participants;
\* otherwise it stores proof under the active task's name, over any earlier
\* proof for that name, and changes neither the completion flag of
\* active_task nor task_info (nor anything else).
UploadStoresProof ==
    \A c \in Principals, h \in Hashes :
        LET r == upload_completion_proof(Cur, c, h)
        IN  IF ~Contains(active_participants, c)
            THEN r.err = NotActiveParticipant /\ Commit(Cur, r) = Cur
            ELSE /\ r.err = Ok
                 /\ r.st.proofs[active_task[1]] = h
                 /\ r.st.active_task = active_task
                 /\ r.st.task_info = task_info
                 /\ r.st = [Cur EXCEPT !.proofs[active_task[1]] = h]

\* bob alone was selected for Task 1 and uploaded a proof; a second upload
\* replaces it, and alice, the owner, is not a participant
ProofOverwritten ==
    /\ active_task = Some("Task 1", FALSE)
    /\ proofs["Task 1"] = "0x01"
    /\ Contains(active_participants, "bob")
    /\ ~Contains(active_participants, "alice")
    /\ upload_completion_proof(Cur, "bob", "0x02").st.proofs["Task 1"] = "0x02"
    /\ upload_completion_proof(Cur, "alice", "0x02").err = NotActiveParticipant

\* C22: in every reachable state where active_task is None,
\* upload_completion_proof by any caller panics with 'Caller must be active
\* participant'; the panic 'Active task must exist' is never reached.
UploadWithoutActiveTask ==
    \A c \in Principals, h \in Hashes :
        LET r == upload_completion_proof(Cur, c, h)
        IN  /\ r.err # NoActiveTask
            /\ active_task = None =>
                  (r.err = NotActiveParticipant /\ Commit(Cur, r) = Cur)

\* no era was started yet: bob is a member, a task exists, and bob's upload
\* fails
UploadBeforeFirstEra ==
    /\ active_task = None
    /\ "bob" \in is_member
    /\ Len(tasks) > 0
    /\ upload_completion_proof(Cur, "bob", "0x01").err = NotActiveParticipant

\* C23: start_new_era checks era reached (current_block - last_selection >=
\* next_selection), active task complete, members non-empty, tasks
\* non-empty, in this order: with the first two satisfied it panics with
\* 'Must have at least one member' when members is empty, else with 'Must
\* have at least one task' when tasks is empty, and it succeeds exactly when
\* all four hold.
StartNewEraCheckOrder ==
    LET era == block_number - last_selection >= next_selection
        complete == active_task = None \/ active_task[2]
    IN  /\ (era /\ complete) =>
              StartNewEraNow.err =
                 (IF Len(members) = 0 THEN NoMembers
                  ELSE IF Len(tasks) = 0 THEN NoTasks
                  ELSE Ok)
        /\ StartNewEraNow.err = Ok <=>
              (era /\ complete /\ Len(members) > 0 /\ Len(tasks) > 0)

\* C24: register_member panics with 'Member already exists' when the caller
\* is in the members sequence already, and the registry stays as it was;
\* otherwise it appends the caller to the end of members, adds the caller to
\* is_member and changes nothing else.
RegisterMemberAppends ==
    \A c \in Principals :
        LET r == register_member(Cur, c)
        IN  IF Contains(members, c)
            THEN r.err = AlreadyMember /\ Commit(Cur, r) = Cur
            ELSE /\ r.err = Ok
                 /\ r.st = [Cur EXCEPT !.members = Append(members, c),
                                       !.is_member = is_member \cup {c}]

\* bob registered before alice: bob cannot register again, charlie would
\* become the last member
BobRegisteredBeforeAlice ==
    /\ members = <<"bob", "alice">>
    /\ register_member(Cur, "bob").err = AlreadyMember
    /\ register_member(Cur, "charlie").st.members
          = <<"bob", "alice", "charlie">>

\* C25: deregister_member panics with 'Must be a member to call' when the
\* caller is not registered; otherwise it removes the caller from is_member
\* and from members, the last element of members taking the caller's slot
\* and every other element keeping its own, so that the principals left are
\* the previous ones without the caller; nothing else changes.
DeregisterMemberSwapRemoves ==
    \A c \in Principals :
        LET r == deregister_member(Cur, c)
            n == Len(members)
        IN  IF c \notin is_member
            THEN r.err = NotMember /\ Commit(Cur, r) = Cur
            ELSE /\ r.err = Ok
                 /\ r.st.is_member = is_member \ {c}
                 /\ Len(r.st.members) = n - 1
                 /\ \A i \in 1..(n - 1) :
                       r.st.members[i] = IF members[i] = c THEN members[n]
                                         ELSE members[i]
                 /\ Range(r.st.members) = Range(members) \ {c}
                 /\ r.st = [Cur EXCEPT !.members = r.st.members,
                                       !.is_member = r.st.is_member]

\* three members, the first of them leaves: charlie, the last, takes the
\* first slot
FirstOfThreeLeaves ==
    /\ members = <<"alice", "bob", "charlie">>
    /\ deregister_member(Cur, "alice").st.members = <<"charlie", "bob">>
    /\ deregister_member(Cur, "alice").st.is_member = {"bob", "charlie"}
    /\ deregister_member(Cur, "django").err = NotMember

\* C26: clear_members by the owner leaves members empty and is_member
\* without any principal, whatever the size of the registry, and changes
\* nothing else; no state of the contract holds a partly cleared registry:
\* a step that changes the registry registers one caller, deregisters one
\* caller, or empties both members and is_member.
ClearMembersEmpties ==
    /\ [](clear_members(Cur, owner)
             = Done([Cur EXCEPT !.members = <<>>, !.is_member = {}]))
    /\ [][\/ <<members, is_member>>' = <<members, is_member>>
          \/ \E c \in Principals :
                CurNext = Commit(Cur, register_member(Cur, c))
          \/ \E c \in Principals :
                CurNext = Commit(Cur, deregister_member(Cur, c))
          \/ members' = <<>> /\ is_member' = {}]_vars

\* a registry of three for the owner to clear
ThreeMembersToClear ==
    /\ members = <<"bob", "charlie", "alice">>
    /\ is_member = {"alice", "bob", "charlie"}
    /\ clear_members(Cur, owner).st.members = <<>>
    /\ clear_members(Cur, owner).st.is_member = {}
    /\ clear_members(Cur, "bob").err = NotOwner

\* C27: set_selection_era(e) by the owner sets next_selection to e for
\* every e, 0 included, and changes no other field; a step that changes
\* next_selection changes nothing else, and start_block never changes after
\* construction.
SetSelectionEraFrame ==
    /\ [](\A e \in 0..MaxU32 :
             LET r == set_selection_era(Cur, owner, e)
             IN  /\ r.err = Ok
                 /\ r.st.next_selection = e
                 /\ r.st = [Cur EXCEPT !.next_selection = e])
    /\ [][/\ start_block' = start_block
          /\ next_selection' # next_selection =>
                CurNext = [Cur EXCEPT !.next_selection = next_selection']]_vars

\* the contract was instantiated at block 1 and an era started at block 2
\* after the owner had set the era length to 0
EraLengthSetToZero ==
    /\ next_selection = 0
    /\ start_block = 1
    /\ last_selection = 2
    /\ active_task = Some("Task 1", FALSE)
    /\ set_selection_era(Cur, owner, MaxU32).st.next_selection = MaxU32

\* C28: active_task is None after construction; a step that changes it never
\* sets it to None; it becomes (t, false) only by a successful
\* start_new_era, and (t, true) only from (t, false) by a successful
\* complete_task of the owner. So the flag goes back from true to false
\* only by a new start_new_era.
ActiveTaskStateMachine ==
    /\ active_task = None
    /\ [][active_task' # active_task =>
            /\ active_task' # None
            /\ ~active_task'[2] =>
                  /\ StartNewEraNow.err = Ok
                  /\ CurNext = StartNewEraNow.st
            /\ active_task'[2] =>
                  /\ active_task = Some(active_task'[1], FALSE)
                  /\ \E failed \in SUBSET (1..NumParticipants) :
                        /\ complete_task(Cur, owner, failed).err = Ok
                        /\ CurNext = complete_task(Cur, owner, failed).st]_vars

\* Task 1 was completed in the era of block 1 and Task 2 selected at block 2
SecondEraStarted ==
    /\ active_task = Some("Task 2", FALSE)
    /\ task_info["Task 1"] = <<TRUE, 0>>
    /\ task_info["Task 2"] = <<FALSE, 0>>
    /\ last_selection = 2

\* C29, as stated: while a task's info entry exists, its funded balance
\* never decreases from one state to the next.
TaskBalanceNeverDecreases ==
    [][\A t \in TaskNames :
          (task_info[t] # Absent /\ task_info'[t] # Absent) =>
              task_info'[t][2] >= task_info[t][2]]_vars

\* C29, amended: while a task's info entry exists, a step that changes the
\* entry either is a successful fund_task that grows the balance and keeps
\* the flag, or is the owner's successful complete_task while the task is
\* the active one, which sets the entry from (false, b) to (true, 0); the
\* balance decreases in no other step.
TaskBalanceResetOnlyByCompletion ==
    [][\A t \in TaskNames :
          (/\ task_info[t] # Absent
           /\ task_info'[t] # Absent
           /\ task_info'[t] # task_info[t]) =>
              \/ /\ task_info'[t][2] > task_info[t][2]
                 /\ task_info'[t][1] = task_info[t][1]
                 /\ \E c \in Principals :
                       LET r == fund_task(Cur, c, t,
                                   task_info'[t][2] - task_info[t][2])
                       IN  r.err = Ok /\ CurNext = r.st
              \/ /\ task_info'[t] = <<TRUE, 0>>
                 /\ ~task_info[t][1]
                 /\ active_task # None /\ active_task[1] = t
                 /\ \E failed \in SUBSET (1..NumParticipants) :
                       /\ complete_task(Cur, owner, failed).err = Ok
                       /\ CurNext = complete_task(Cur, owner, failed).st]_vars

\* Task 1 held 3 when it was completed: its balance is 0 and the 3, too
\* little to share among 4, are unclaimed; Task 2 still holds its 3
FundedTaskCompleted ==
    /\ task_info["Task 1"] = <<TRUE, 0>>
    /\ task_info["Task 2"] = <<FALSE, 3>>
    /\ active_task = Some("Task 1", TRUE)
    /\ unclaimed_funds = 3
    /\ balances[Contract] = 6

\* C30: in every reachable state every task whose completion flag in
\* task_info is true has balance 0.
CompletedTasksHoldNothing ==
    \A t \in TaskNames :
        (task_info[t] # Absent /\ task_info[t][1]) => task_info[t][2] = 0

\* both tasks were funded with 3 and completed, one era after the other
BothTasksCompleted ==
    /\ task_info["Task 1"] = <<TRUE, 0>>
    /\ task_info["Task 2"] = <<TRUE, 0>>
    /\ unclaimed_funds = 6
    /\ fund_task(Cur, "alice", "Task 1", 0).err = TaskAlreadyComplete

\* C31: in every reachable state, when active_task is Some((t, c)) and
\* task_info has an entry for t, the completion flag of that entry is c.
CompletionFlagsAgree ==
    (active_task # None /\ task_info[active_task[1]] # Absent) =>
        task_info[active_task[1]][1] = active_task[2]

\* C32: in every reachable state where active_task is Some((t, _)),
\* task_info has an entry for t, and complete_task by the owner does not
\* panic with 'Task must exist', whatever transfers are refused.
ActiveTaskHasEntry ==
    active_task # None =>
        /\ task_info[active_task[1]] # Absent
        /\ \A failed \in SUBSET (1..NumParticipants) :
              CompleteTaskNow(failed).err # TaskMustExist

\* C33: a complete_task called while the flag of active_task is true
\* already pays no principal anything and leaves unclaimed_funds as it was.
DisbursedOncePerEra ==
    (active_task # None /\ active_task[2]) =>
        \A failed \in SUBSET (1..NumParticipants) :
            LET after == Commit(Cur, CompleteTaskNow(failed))
            IN  /\ \A p \in Principals : after.balances[p] = balances[p]
                /\ after.unclaimed_funds = unclaimed_funds

\* the sum of the balances of the entries of task_info
TaskBalances(s) ==
    SumOver([t \in TaskNames |->
                IF s.task_info[t] = Absent THEN 0 ELSE s.task_info[t][2]],
            TaskNames)

Conserved(s) ==
    s.balances[Contract] = TaskBalances(s) + s.unclaimed_funds

\* C34: the contract holding 0 at first and receiving value through
\* fund_task only, in every reachable state the contract's balance is the
\* sum of the task balances of task_info plus unclaimed_funds; so
\* complete_task never panics with 'Contract has insufficient funds', and
\* its disbursement, whatever transfers are refused, keeps the equation.
FundsConserved ==
    /\ Conserved(Cur)
    /\ \A failed \in SUBSET (1..NumParticipants) :
          /\ CompleteTaskNow(failed).err # InsufficientFunds
          /\ CompleteTaskNow(failed).err = Ok =>
                Conserved(CompleteTaskNow(failed).st)

\* Task 1 was removed with its 3, Task 2 holds 3 and is in flight: the
\* contract holds the 6
SweptAndFundedHeld ==
    /\ task_info["Task 1"] = Absent
    /\ task_info["Task 2"] = <<FALSE, 3>>
    /\ unclaimed_funds = 3
    /\ balances[Contract] = 6
    /\ active_task = Some("Task 2", FALSE)
    /\ CompleteTaskNow({2}).err = Ok

\* C35: in every reachable state active_participants has length 0 or 4 and
\* is empty exactly when active_task is None; a successful start_new_era
\* commits 4 participants, and complete_task, dividing by that length,
\* never panics with a division by zero.
FourParticipants ==
    /\ Len(active_participants) \in {0, 4}
    /\ Len(active_participants) = 0 <=> active_task = None
    /\ StartNewEraNow.err = Ok =>
          Len(StartNewEraNow.st.active_participants) = 4
    /\ \A failed \in SUBSET (1..NumParticipants) :
          CompleteTaskNow(failed).err # DivideByZero

\* bob, the only member, was selected for all 4 slots, and the registry was
\* cleared after the era started
FourSlotsForBob ==
    /\ active_participants = <<"bob", "bob", "bob", "bob">>
    /\ active_task = Some("Task 1", FALSE)
    /\ members = <<>>
    /\ CompleteTaskNow({}).err = Ok

\* C36: the era gate as computed, block_number >= last_selection +
\* next_selection on u32, agrees with current_block - last_selection >=
\* next_selection in every reachable state and for every era length the
\* owner can set, and the sum never exceeds the largest u32.
EraGateAgrees ==
    \A e \in 0..MaxU32 :
        LET s == Commit(Cur, set_selection_era(Cur, owner, e))
        IN  /\ s.last_selection + s.next_selection <= MaxU32
            /\ ensure_era_reached(s, block_number, overflow_checks) = Ok
                   <=> block_number - s.last_selection >= s.next_selection

\* C37: the 4 participants a successful start_new_era commits are members
\* registered at that moment; they are pairwise distinct iff members has at
\* least 4 elements, and with fewer than 4 members every member is
\* selected. Checked in the current state and in the state after one more
\* principal has registered.
ParticipantsAreMembers ==
    \A s \in {Cur} \cup {Commit(Cur, register_member(Cur, c)) :
                             c \in Principals} :
        LET r == start_new_era(s, block_number, overflow_checks)
            selected == r.st.active_participants
        IN  r.err = Ok =>
              /\ Range(selected) \subseteq s.is_member
              /\ Range(selected) \subseteq Range(s.members)
              /\ NoDuplicates(selected) <=> Len(s.members) >= 4
              /\ Len(s.members) < 4 => Range(selected) = Range(s.members)

\* four members, the era of block 1 selected each of them once, starting
\* with the second; a fifth member can still register
FourMembersAllSelected ==
    /\ members = <<"alice", "bob", "charlie", "django">>
    /\ active_participants = <<"bob", "charlie", "django", "alice">>
    /\ last_selection = 1
    /\ register_member(Cur, "eve").err = Ok

====
